---- MODULE Spec2Model ----
(***************************************************************************)
(* check-sparked-server (src/main.py): a sequential audit of a FHIR server *)
(* against a GitHub corpus of test data.  One run is                       *)
(*   check_versions -> get_server_resource_summary ->                      *)
(*   get_github_test_data_summary (Phase 1 listing, Phase 2 search) ->     *)
(*   compare_server_to_github -> write_output_to_file.                     *)
(* Every action is one external call (an HTTP GET or the file write)       *)
(* together with all the processing the code does on its result.           *)
(*                                                                         *)
(* Python strings are sequences of character codes, so that startswith,   *)
(* endswith, the `in` substring test, lower() and the ordering used by     *)
(* sorted() are computed the way the interpreter computes them.            *)
(***************************************************************************)
EXTENDS Integers, Sequences, FiniteSets, TLC

VARIABLES
    pc,               \* position of the run
    response,         \* what the latest external call returned (or raised)
    out,              \* what the latest step printed
    profile_idx,      \* check_versions: next entry of PROFILES_TO_CHECK
    count_idx,        \* get_server_resource_summary: next resource type
    resource_counts,  \* get_server_resource_summary: resource_counts
    filtered_dirs,    \* Phase 1: filtered_dirs
    dir_idx,          \* Phase 1: next entry of filtered_dirs
    top_failed,       \* Phase 1: the top-level listing raised
    test_data_files,  \* the corpus index (a defaultdict(list))
    phase1_files,     \* history: the corpus index when Phase 1 ended
    missing_types,    \* Phase 2: missing_types
    missing_idx,      \* Phase 2: next entry of missing_types
    page,             \* Phase 2: page
    total_found,      \* Phase 2: total_found
    searched,         \* history: resource types a search request was sent for
    rows,             \* compare_server_to_github: the rows printed, in order
    output_path,      \* OUTPUT_FILE_PATH
    fs_dirs,          \* file system: the directories that exist
    fs_files,         \* file system: the files that exist
    written,          \* write_output_to_file: its return value
    writes,           \* history: calls of write_output_to_file so far
    budget            \* data-bearing responses the environment may still give

vars == <<pc, response, out, profile_idx, count_idx, resource_counts,
          filtered_dirs, dir_idx, top_failed, test_data_files, phase1_files,
          missing_types, missing_idx, page, total_found, searched, rows,
          output_path, fs_dirs, fs_files, written, writes, budget>>

----------------------------------------------------------------------------
(* Bounds of the model.                                                    *)

\* Largest "total" a count query or a profile search reports.
MaxTotal == 2
\* Most entries in a StructureDefinition search bundle.
MaxEntries == 2
\* Most children in the listing of one corpus subdirectory.
MaxFiles == 2
\* Data sources in a whole run: count queries answered with status 200,
\* subdirectory listings that are not empty, resource types whose first
\* search page is not empty, resource types the search paginates for.
MaxRunData == 1
\* The same, when get_server_resource_summary is run on its own.
MaxCountData == 2
\* The same, when get_github_test_data_summary is run on its own.
MaxCorpusData == 2
\* Most resource types with data on either side handed to the comparator.
MaxCompareData == 1
\* Timestamps (seconds) at which the transcript may be written.
MaxClock == 2

----------------------------------------------------------------------------
(* Python strings.                                                         *)

\* None, and an integer n held where None may be held: <<>> and <<n>>.
None == <<>>

Some(n) == <<n>>

StartsWith(s, p) == Len(p) <= Len(s) /\ SubSeq(s, 1, Len(p)) = p

EndsWith(s, p) == Len(p) <= Len(s) /\ SubSeq(s, Len(s) - Len(p) + 1, Len(s)) = p

\* Python's `sub in s`.
Contains(s, sub) ==
    \E i \in 0..(Len(s) - Len(sub)) : SubSeq(s, i + 1, i + Len(sub)) = sub

\* str.lower() on ASCII.
Lower(s) == [i \in 1..Len(s) |-> IF s[i] >= 65 /\ s[i] <= 90 THEN s[i] + 32 ELSE s[i]]

\* Python's s < t on strings: code point order at the first place where
\* they differ, a proper prefix being the smaller.
StrLess(s, t) ==
    LET n == IF Len(s) < Len(t) THEN Len(s) ELSE Len(t)
        diff == {i \in 1..n : s[i] # t[i]}
    IN IF diff = {} THEN Len(s) < Len(t)
       ELSE LET k == CHOOSE i \in diff : \A j \in diff : i <= j IN s[k] < t[k]

RECURSIVE Join(_, _)
\* sep.join(parts)
Join(sep, parts) ==
    IF parts = <<>> THEN <<>>
    ELSE IF Len(parts) = 1 THEN parts[1]
    ELSE parts[1] \o sep \o Join(sep, Tail(parts))

RECURSIVE SelectSeqBy(_, _)
\* [x for x in s if x in keep]
SelectSeqBy(s, keep) ==
    IF s = <<>> THEN <<>>
    ELSE IF s[1] \in keep THEN <<s[1]>> \o SelectSeqBy(Tail(s), keep)
    ELSE SelectSeqBy(Tail(s), keep)

Range(s) == {s[i] : i \in 1..Len(s)}

\* All sequences over S of length at most n.
SeqUpTo(S, n) == UNION {[1..k -> S] : k \in 0..n}

----------------------------------------------------------------------------
(* Configuration (module level of src/main.py).                            *)

Patient == <<80, 97, 116, 105, 101, 110, 116>>  \* "Patient"
Practitioner == <<80, 114, 97, 99, 116, 105, 116, 105, 111, 110, 101, 114>>  \* "Practitioner"
PractitionerRole == <<80, 114, 97, 99, 116, 105, 116, 105, 111, 110, 101, 114, 82, 111, 108, 101>>  \* "PractitionerRole"
Organization == <<79, 114, 103, 97, 110, 105, 122, 97, 116, 105, 111, 110>>  \* "Organization"
HealthcareService == <<72, 101, 97, 108, 116, 104, 99, 97, 114, 101, 83, 101, 114, 118, 105, 99, 101>>  \* "HealthcareService"
Location == <<76, 111, 99, 97, 116, 105, 111, 110>>  \* "Location"
ServiceRequest == <<83, 101, 114, 118, 105, 99, 101, 82, 101, 113, 117, 101, 115, 116>>  \* "ServiceRequest"
RelatedPerson == <<82, 101, 108, 97, 116, 101, 100, 80, 101, 114, 115, 111, 110>>  \* "RelatedPerson"
Observation == <<79, 98, 115, 101, 114, 118, 97, 116, 105, 111, 110>>  \* "Observation"
DocumentReference == <<68, 111, 99, 117, 109, 101, 110, 116, 82, 101, 102, 101, 114, 101, 110, 99, 101>>  \* "DocumentReference"
Task == <<84, 97, 115, 107>>  \* "Task"
CommunicationRequest == <<67, 111, 109, 109, 117, 110, 105, 99, 97, 116, 105, 111, 110, 82, 101, 113, 117, 101, 115, 116>>  \* "CommunicationRequest"

RESOURCE_TYPES_TO_CHECK ==
    << Patient, Practitioner, PractitionerRole, Organization,
       HealthcareService, Location, ServiceRequest, RelatedPerson,
       Observation, DocumentReference, Task, CommunicationRequest >>

ResourceTypes == Range(RESOURCE_TYPES_TO_CHECK)

\* The keys of PROFILES_TO_CHECK, in insertion order.
PROFILES_TO_CHECK == << Patient, ServiceRequest >>

TEST_DATA_PATH == <<97, 117, 45, 102, 104, 105, 114, 45, 116, 101, 115, 116, 45, 100, 97, 116, 97, 45, 115, 101, 116>>  \* "au-fhir-test-data-set"
FILTER_au_core == <<97, 117, 45, 99, 111, 114, 101>>  \* "au-core"
FILTER_au_erequesting == <<97, 117, 45, 101, 114, 101, 113, 117, 101, 115, 116, 105, 110, 103>>  \* "au-erequesting"

\* The default of the TEST_DATA_FILTERS environment variable, split on ",".
TEST_DATA_FILTERS == << FILTER_au_core, FILTER_au_erequesting >>

DOT_JSON == <<46, 106, 115, 111, 110>>  \* ".json"
SLASH == <<47>>  \* "/"
DASH == <<45>>  \* "-"
QUOTE == <<39>>  \* "'"
COMMA_SPACE == <<44, 32>>  \* ", "
LBRACKET == <<91>>  \* "["
RBRACKET == <<93>>  \* "]"
V_1_0_0 == <<49, 46, 48, 46, 48>>  \* "1.0.0"
RATE_LIMIT == <<114, 97, 116, 101, 32, 108, 105, 109, 105, 116>>  \* "rate limit"

\* while page <= 10
MAX_PAGES == 10
\* "per_page": 100
PER_PAGE == 100

----------------------------------------------------------------------------
(* Dictionaries and run-length encoded lists.                              *)

EmptyDict == [k \in {} |-> None]

\* d[k] = v
DictSet(d, k, v) == [x \in DOMAIN d \cup {k} |-> IF x = k THEN v ELSE d[x]]

\* d.get(k, default)
DictGet(d, k, default) == IF k \in DOMAIN d THEN d[k] ELSE default

\* A list of paths is kept as runs [path, n]: n consecutive equal elements.
\* list.append(p), n times over.
AppendN(list, p, n) ==
    IF n = 0 THEN list
    ELSE IF list # <<>> /\ list[Len(list)].path = p
         THEN [list EXCEPT ![Len(list)].n = @ + n]
         ELSE Append(list, [path |-> p, n |-> n])

RECURSIVE ListLen(_)
\* len(list) of a run-length encoded list
ListLen(list) == IF list = <<>> THEN 0 ELSE list[1].n + ListLen(Tail(list))

\* test_data_files[k].append(p), n times over, on a defaultdict(list)
IndexAppend(index, k, p, n) ==
    IF n = 0 THEN index
    ELSE DictSet(index, k, AppendN(DictGet(index, k, <<>>), p, n))

----------------------------------------------------------------------------
(* check_versions                                                          *)

V_0_9_0 == <<48, 46, 57, 46, 48>>  \* "0.9.0"
V_11_0_0 == <<49, 49, 46, 48, 46, 48>>  \* "11.0.0"
NONE == <<78, 79, 78, 69>>  \* "NONE"

\* The entries a StructureDefinition search may return.
BundleEntries == [version : {V_1_0_0, V_0_9_0, V_11_0_0}, status : {"active", "draft"}]

\* What the GET of one profile search returns.  status 0: requests.get or
\* response.json() raised; 404, 500: raise_for_status() raises.
ProfileResponses ==
    [status : {0, 404, 500}, total : {0}, entry : {<<>>}]
    \cup [status : {200}, total : 0..MaxTotal, entry : SeqUpTo(BundleEntries, MaxEntries)]

\* [entry['resource'].get('version') for entry in bundle.get('entry', [])]
AllVersions(entry) == [i \in 1..Len(entry) |-> entry[i].version]

RECURSIVE ActiveVersions(_)
\* [entry['resource']['version'] for entry in ... if status == 'active']
ActiveVersions(entry) ==
    IF entry = <<>> THEN <<>>
    ELSE IF entry[1].status = "active"
         THEN <<entry[1].version>> \o ActiveVersions(Tail(entry))
         ELSE ActiveVersions(Tail(entry))

\* str(list_of_str): "['1.0.0', '0.9.0']"
PyStrList(l) ==
    LBRACKET \o Join(COMMA_SPACE, [i \in 1..Len(l) |-> QUOTE \o l[i] \o QUOTE]) \o RBRACKET

\* A mutation of VersionCheck: list membership instead of substring containment.
VersionCheckByEquality(active_versions) ==
    \E i \in 1..Len(active_versions) : active_versions[i] = V_1_0_0

\* "1.0.0" in str(active_versions)
VersionCheck(active_versions) == Contains(PyStrList(active_versions), V_1_0_0)

\* What one iteration of the loop of check_versions prints.
ProfileReport(name, r) ==
    IF r.status # 200
    THEN [unit |-> name, result |-> "error", detail |-> <<>>, active |-> None]
    ELSE IF r.total = 0
    THEN [unit |-> name, result |-> "not_found", detail |-> <<>>, active |-> None]
    ELSE LET active_versions == ActiveVersions(r.entry) IN
         [unit |-> name,
          result |-> IF VersionCheck(active_versions) THEN "VERIFIED" ELSE "WARNING",
          detail |-> AllVersions(r.entry),
          active |-> IF active_versions # <<>> THEN active_versions[1] ELSE NONE]

\* One iteration of `for name, url in PROFILES_TO_CHECK.items()`.
CheckProfile ==
    /\ pc = "versions"
    /\ \E r \in ProfileResponses :
        LET name == PROFILES_TO_CHECK[profile_idx] IN
        /\ response' = [call |-> "profile", target |-> name, status |-> r.status,
                        total |-> r.total, body |-> r.entry]
        /\ out' = ProfileReport(name, r)
    /\ profile_idx' = profile_idx + 1
    /\ pc' = IF profile_idx = Len(PROFILES_TO_CHECK) THEN "counts" ELSE "versions"
    /\ UNCHANGED <<count_idx, resource_counts, filtered_dirs, dir_idx, top_failed,
                   test_data_files, phase1_files, missing_types, missing_idx, page,
                   total_found, searched, rows, output_path, fs_dirs, fs_files,
                   written, writes, budget>>

----------------------------------------------------------------------------
(* get_server_resource_summary                                             *)

\* What the count query of one resource type returns.  status 0: the GET or
\* response.json() raised.
CountResponses ==
    [status : {0, 404, 500}, total : {0}] \cup [status : {200}, total : 0..MaxTotal]

\* A mutation of CountEntry: an unsupported type is recorded as a zero count.
CountEntryZeroOn404(r) ==
    IF r.status = 200 THEN Some(r.total) ELSE IF r.status = 404 THEN Some(0) ELSE None

\* The value stored in resource_counts[resource_type].
CountEntry(r) == IF r.status = 200 THEN Some(r.total) ELSE None

\* What one iteration prints.
CountReport(rt, r) ==
    [unit |-> rt,
     result |-> IF r.status = 200 THEN (IF r.total > 0 THEN "instances" ELSE "silent")
                ELSE IF r.status = 404 THEN "silent"
                ELSE IF r.status = 0 THEN "error"
                ELSE "unable_to_query",
     detail |-> <<>>, active |-> None]

\* One iteration of `for resource_type in RESOURCE_TYPES_TO_CHECK`.
CountResource ==
    /\ pc = "counts"
    /\ \E r \in CountResponses :
        LET rt == RESOURCE_TYPES_TO_CHECK[count_idx] IN
        /\ response' = [call |-> "count", target |-> rt, status |-> r.status,
                        total |-> r.total, body |-> <<>>]
        /\ r.status = 200 => budget > 0
        /\ budget' = IF r.status = 200 THEN budget - 1 ELSE budget
        /\ resource_counts' = DictSet(resource_counts, rt, CountEntry(r))
        /\ out' = CountReport(rt, r)
    /\ count_idx' = count_idx + 1
    /\ pc' = IF count_idx = Len(RESOURCE_TYPES_TO_CHECK) THEN "toplevel" ELSE "counts"
    /\ UNCHANGED <<profile_idx, filtered_dirs, dir_idx, top_failed, test_data_files,
                   phase1_files, missing_types, missing_idx, page, total_found,
                   searched, rows, output_path, fs_dirs, fs_files, written, writes>>

----------------------------------------------------------------------------
(* get_github_test_data_summary, Phase 1: the directory listing            *)

DIR_au_core == <<97, 117, 45, 99, 111, 114, 101>>  \* "au-core"
DIR_au_erequesting_r4 == <<97, 117, 45, 101, 114, 101, 113, 117, 101, 115, 116, 105, 110, 103, 45, 114, 52>>  \* "au-erequesting-r4"
DIR_au_ps == <<97, 117, 45, 112, 115>>  \* "au-ps"
FILE_au_core_md == <<97, 117, 45, 99, 111, 114, 101, 46, 109, 100>>  \* "au-core.md"
F_Patient_json == <<80, 97, 116, 105, 101, 110, 116, 45, 48, 48, 49, 46, 106, 115, 111, 110>>  \* "Patient-001.json"
F_PractitionerRole_json == <<80, 114, 97, 99, 116, 105, 116, 105, 111, 110, 101, 114, 82, 111, 108, 101, 45, 48, 48, 49, 46, 106, 115, 111, 110>>  \* "PractitionerRole-001.json"
F_notes_json == <<110, 111, 116, 101, 115, 46, 106, 115, 111, 110>>  \* "notes.json"
F_Patient_txt == <<80, 97, 116, 105, 101, 110, 116, 45, 48, 48, 49, 46, 116, 120, 116>>  \* "Patient-001.txt"
F_Task_json == <<84, 97, 115, 107, 45, 48, 48, 49, 46, 106, 115, 111, 110>>  \* "Task-001.json"
MSG_rate_limit == <<52, 48, 51, 32, 67, 108, 105, 101, 110, 116, 32, 69, 114, 114, 111, 114, 58, 32, 114, 97, 116, 101, 32, 108, 105, 109, 105, 116, 32, 101, 120, 99, 101, 101, 100, 101, 100>>  \* "403 Client Error: rate limit exceeded"
MSG_Rate_Limit == <<52, 48, 51, 32, 67, 108, 105, 101, 110, 116, 32, 69, 114, 114, 111, 114, 58, 32, 82, 97, 116, 101, 32, 76, 105, 109, 105, 116, 32, 69, 120, 99, 101, 101, 100, 101, 100>>  \* "403 Client Error: Rate Limit Exceeded"
MSG_forbidden == <<52, 48, 51, 32, 67, 108, 105, 101, 110, 116, 32, 69, 114, 114, 111, 114, 58, 32, 70, 111, 114, 98, 105, 100, 100, 101, 110>>  \* "403 Client Error: Forbidden"
MSG_server_error == <<53, 48, 48, 32, 83, 101, 114, 118, 101, 114, 32, 69, 114, 114, 111, 114, 58, 32, 73, 110, 116, 101, 114, 110, 97, 108, 32, 83, 101, 114, 118, 101, 114, 32, 69, 114, 114, 111, 114>>  \* "500 Server Error: Internal Server Error"
MSG_rate_limit_429 == <<52, 50, 57, 32, 67, 108, 105, 101, 110, 116, 32, 69, 114, 114, 111, 114, 58, 32, 114, 97, 116, 101, 32, 108, 105, 109, 105, 116, 32, 101, 120, 99, 101, 101, 100, 101, 100>>  \* "429 Client Error: rate limit exceeded"

\* Items of a GitHub contents listing: {name, type}.
TopAuCore == [name |-> DIR_au_core, type |-> "dir"]
TopAuEreq == [name |-> DIR_au_erequesting_r4, type |-> "dir"]
TopAuPs == [name |-> DIR_au_ps, type |-> "dir"]
TopReadme == [name |-> FILE_au_core_md, type |-> "file"]

\* The listings of TEST_DATA_PATH the model draws from.
TopListings ==
    { <<>>,
      <<TopAuPs, TopReadme>>,
      <<TopAuCore, TopAuPs>>,
      <<TopReadme, TopAuEreq>>,
      <<TopAuCore, TopAuEreq>>,
      <<TopAuPs, TopAuEreq, TopReadme, TopAuCore>> }

\* What the GET of the top-level listing returns.  status 0: the GET or
\* response.json() raised something that is no HTTPError; otherwise msg is
\* str(e) of the HTTPError raise_for_status() raises (up to " for url: ...",
\* which holds no "rate limit").
TopResponses ==
    [status : {200}, msg : {<<>>}, contents : TopListings]
    \cup [status : {0}, msg : {<<>>}, contents : {<<>>}]
    \cup [status : {403}, msg : {MSG_rate_limit, MSG_Rate_Limit, MSG_forbidden}, contents : {<<>>}]
    \cup [status : {429}, msg : {MSG_rate_limit_429}, contents : {<<>>}]
    \cup [status : {500}, msg : {MSG_server_error}, contents : {<<>>}]

\* dir_name.startswith(filter_prefix) for some filter (the loop breaks at the first)
MatchesFilter(dir_name) ==
    \E i \in 1..Len(TEST_DATA_FILTERS) : StartsWith(dir_name, TEST_DATA_FILTERS[i])

RECURSIVE FilterDirs(_)
\* filtered_dirs: the directories of the listing whose name matches a filter
FilterDirs(contents) ==
    IF contents = <<>> THEN <<>>
    ELSE IF contents[1].type = "dir" /\ MatchesFilter(contents[1].name)
         THEN <<contents[1].name>> \o FilterDirs(Tail(contents))
         ELSE FilterDirs(Tail(contents))

\* e.response.status_code == 403 and 'rate limit' in str(e).lower()
IsRateLimit(r) == r.status = 403 /\ Contains(Lower(r.msg), RATE_LIMIT)

\* What the top-level listing step prints.
TopReport(r) ==
    [unit |-> TEST_DATA_PATH,
     result |-> IF r.status = 200
                THEN (IF FilterDirs(r.contents) = <<>> THEN "no_test_data" ELSE "listing")
                ELSE IF r.status = 0 THEN "error"
                ELSE IF IsRateLimit(r) THEN "rate_limit_guidance"
                ELSE "error",
     detail |-> <<>>, active |-> None]

\* A mutation of TopNext: a listing that raised ends the run (no except clause).
TopNextAbort(r) ==
    IF r.status # 200 THEN "done"
    ELSE IF FilterDirs(r.contents) # <<>> THEN "dirs" ELSE "phase2"

\* Where the run goes after the top-level listing: into the loop over
\* filtered_dirs, or, the loop being empty or the listing having raised (the
\* except clauses of lines 229-242), on to line 246.
TopNext(r) == IF r.status = 200 /\ FilterDirs(r.contents) # <<>> THEN "dirs" ELSE "phase2"

\* The GET of TEST_DATA_PATH and the selection of filtered_dirs.
ListTop ==
    /\ pc = "toplevel"
    /\ \E r \in TopResponses :
        /\ response' = [call |-> "toplevel", target |-> TEST_DATA_PATH, status |-> r.status,
                        total |-> 0, body |-> r.contents]
        /\ out' = TopReport(r)
        /\ filtered_dirs' = IF r.status = 200 THEN FilterDirs(r.contents) ELSE <<>>
        /\ top_failed' = (r.status # 200)
        /\ pc' = TopNext(r)
    /\ dir_idx' = 1
    /\ UNCHANGED <<profile_idx, count_idx, resource_counts, test_data_files, phase1_files,
                   missing_types, missing_idx, page, total_found, searched, rows,
                   output_path, fs_dirs, fs_files, written, writes, budget>>

\* Children of a corpus subdirectory.
DirItems ==
    { [name |-> F_Patient_json, type |-> "file"],
      [name |-> F_PractitionerRole_json, type |-> "file"],
      [name |-> F_notes_json, type |-> "file"],
      [name |-> F_Patient_txt, type |-> "file"],
      [name |-> F_Task_json, type |-> "dir"] }

\* What the GET of one subdirectory returns.  status 0, 404, 500: it raised.
DirResponses ==
    [status : {200}, contents : SeqUpTo(DirItems, MaxFiles)]
    \cup [status : {0, 404, 500}, contents : {<<>>}]

\* item.get('type') == 'file' and item.get('name', '').endswith('.json')
IsJsonFile(item) == item.type = "file" /\ EndsWith(item.name, DOT_JSON)

\* A mutation of MatchType: the last listed type that is a prefix wins.
MatchTypeLast(filename) ==
    LET hits == {i \in 1..Len(RESOURCE_TYPES_TO_CHECK) :
                    StartsWith(filename, RESOURCE_TYPES_TO_CHECK[i])}
    IN IF hits = {} THEN None
       ELSE <<RESOURCE_TYPES_TO_CHECK[CHOOSE i \in hits : \A j \in hits : j <= i]>>

RECURSIVE MatchFrom(_, _)
\* the loop `for resource_type in RESOURCE_TYPES_TO_CHECK` with its break,
\* from the i-th type on: <<type>> when one matched, None when none did
MatchFrom(filename, i) ==
    IF i > Len(RESOURCE_TYPES_TO_CHECK) THEN None
    ELSE IF StartsWith(filename, RESOURCE_TYPES_TO_CHECK[i])
         THEN <<RESOURCE_TYPES_TO_CHECK[i]>>
         ELSE MatchFrom(filename, i + 1)

\* The resource type a JSON file is filed under.
MatchType(filename) == MatchFrom(filename, 1)

RECURSIVE Classify(_, _, _)
\* the loop `for item in dir_contents`
Classify(index, dir_name, contents) ==
    IF contents = <<>> THEN index
    ELSE LET item == contents[1]
             m == MatchType(item.name)
         IN IF IsJsonFile(item) /\ m # None
            THEN Classify(IndexAppend(index, m[1], dir_name \o SLASH \o item.name, 1),
                          dir_name, Tail(contents))
            ELSE Classify(index, dir_name, Tail(contents))

RECURSIVE UnmatchedFiles(_)
\* unmatched_files
UnmatchedFiles(contents) ==
    IF contents = <<>> THEN <<>>
    ELSE IF IsJsonFile(contents[1]) /\ MatchType(contents[1].name) = None
         THEN <<contents[1].name>> \o UnmatchedFiles(Tail(contents))
         ELSE UnmatchedFiles(Tail(contents))

\* What the listing of one subdirectory prints.
DirReport(dir_name, r) ==
    [unit |-> dir_name,
     result |-> IF r.status = 200 THEN "found_json_files" ELSE "error",
     detail |-> IF r.status = 200 THEN UnmatchedFiles(r.contents) ELSE <<>>,
     active |-> None]

\* One iteration of `for directory in filtered_dirs`.
ListDir ==
    /\ pc = "dirs"
    /\ \E r \in DirResponses :
        LET dir_name == filtered_dirs[dir_idx]
            index == IF r.status = 200
                     THEN Classify(test_data_files, dir_name, r.contents)
                     ELSE test_data_files
        IN
        /\ response' = [call |-> "dir", target |-> dir_name, status |-> r.status,
                        total |-> 0, body |-> r.contents]
        /\ r.contents # <<>> => budget > 0
        /\ budget' = IF r.contents # <<>> THEN budget - 1 ELSE budget
        /\ out' = DirReport(dir_name, r)
        /\ test_data_files' = index
    /\ dir_idx' = dir_idx + 1
    /\ pc' = IF dir_idx = Len(filtered_dirs) THEN "phase2" ELSE "dirs"
    /\ UNCHANGED <<profile_idx, count_idx, resource_counts, filtered_dirs, top_failed,
                   phase1_files, missing_types, missing_idx, page, total_found,
                   searched, rows, output_path, fs_dirs, fs_files, written, writes>>

----------------------------------------------------------------------------
(* get_github_test_data_summary, Phase 2: the code search fallback         *)

\* A mutation of MissingTypes: every tracked type is searched again.
MissingTypesAll(index) == RESOURCE_TYPES_TO_CHECK

\* missing_types = [rt for rt in RESOURCE_TYPES_TO_CHECK if rt not in test_data_files]
MissingTypes(index) ==
    SelectSeqBy(RESOURCE_TYPES_TO_CHECK, ResourceTypes \ DOMAIN index)

\* The end of Phase 1 (lines 244-249): missing_types is computed.
ComputeMissing ==
    /\ pc = "phase2"
    /\ missing_types' = MissingTypes(test_data_files)
    /\ phase1_files' = test_data_files
    /\ missing_idx' = 1
    /\ page' = 1
    /\ total_found' = 0
    /\ pc' = IF MissingTypes(test_data_files) = <<>> THEN "compare" ELSE "search"
    /\ UNCHANGED <<response, out, profile_idx, count_idx, resource_counts, filtered_dirs,
                   dir_idx, top_failed, test_data_files, searched, rows, output_path,
                   fs_dirs, fs_files, written, writes, budget>>

BUNDLE_ == <<66, 117, 110, 100, 108, 101, 45>>  \* "Bundle-"
SUFFIX_001_json == <<45, 48, 48, 49, 46, 106, 115, 111, 110>>  \* "-001.json"

\* Resource types of which the modelled corpus holds files.
CorpusTypes == {Patient, PractitionerRole}

\* "au-fhir-test-data-set/au-core/<ResourceType>-001.json"
CorpusPath(rt) ==
    TEST_DATA_PATH \o SLASH \o DIR_au_core \o SLASH \o rt \o SUFFIX_001_json

\* "au-fhir-test-data-set/au-core/Bundle-<ResourceType>-001.json": a file the
\* search engine may return for "filename:<ResourceType>-" that is no such resource.
BundlePath(rt) ==
    TEST_DATA_PATH \o SLASH \o DIR_au_core \o SLASH \o BUNDLE_ \o rt \o SUFFIX_001_json

\* One result page: its items, run-length encoded and at most PER_PAGE of
\* them, and the total_count it reports.
Page(items, total_count) == [status |-> 200, items |-> items, total_count |-> total_count]

Run(path, n) == [path |-> path, n |-> n]

\* The pages a search for "filename:<rt>-" may return.  Only a type of which
\* the corpus holds files has pages with that type's files or full pages.
SearchPages(rt) ==
    { Page(<<>>, 0),
      Page(<<Run(BundlePath(rt), 1)>>, 1) }
    \cup (IF rt \in CorpusTypes
          THEN { Page(<<Run(CorpusPath(rt), 1)>>, 1),
                 Page(<<Run(CorpusPath(rt), PER_PAGE)>>, PER_PAGE),
                 Page(<<Run(CorpusPath(rt), PER_PAGE - 1), Run(BundlePath(rt), 1)>>, PER_PAGE - 1),
                 Page(<<Run(CorpusPath(rt), PER_PAGE)>>, 2 * MAX_PAGES * PER_PAGE),
                 Page(<<Run(BundlePath(rt), PER_PAGE)>>, 2 * MAX_PAGES * PER_PAGE) }
          ELSE {})

\* What the GET of one search page returns.  status 0: the GET or
\* search_response.json() raised; 403: an answer that is not 200.
SearchResponses(rt) ==
    SearchPages(rt) \cup [status : {0, 403}, items : {<<>>}, total_count : {0}]

\* f"/{resource_type}-" in path
Accepts(rt, path) == Contains(path, SLASH \o rt \o DASH)

RECURSIVE AcceptItems(_, _, _)
\* the loop `for item in items`, on the list of resource type rt
AcceptItems(list, rt, items) ==
    IF items = <<>> THEN list
    ELSE IF Accepts(rt, items[1].path)
         THEN AcceptItems(AppendN(list, items[1].path, items[1].n), rt, Tail(items))
         ELSE AcceptItems(list, rt, Tail(items))

\* A mutation of MorePages: a page is also followed when the total is reached.
MorePagesIgnoringTotal(r, found, pg) ==
    /\ r.status = 200
    /\ r.items # <<>>
    /\ ~(ListLen(r.items) < PER_PAGE)
    /\ pg + 1 <= MAX_PAGES

\* Whether the loop `while page <= 10` goes around again after the page pg
\* answered r, found being total_found after its items were taken.
MorePages(r, found, pg) ==
    /\ r.status = 200
    /\ r.items # <<>>
    /\ ~(found >= r.total_count \/ ListLen(r.items) < PER_PAGE)
    /\ pg + 1 <= MAX_PAGES

\* What one page request prints.
SearchReport(rt, r, found, more) ==
    [unit |-> rt,
     result |-> IF r.status = 0 THEN "search_failed"
                ELSE IF more THEN "silent"
                ELSE IF found > 0 THEN "found_via_search" ELSE "silent",
     detail |-> <<>>, active |-> None]

\* One request of the loop `while page <= 10` for missing_types[missing_idx].
SearchPage ==
    /\ pc = "search"
    /\ \E r \in SearchResponses(missing_types[missing_idx]) :
        LET rt == missing_types[missing_idx]
            old == DictGet(test_data_files, rt, <<>>)
            new == IF r.status = 200 THEN AcceptItems(old, rt, r.items) ELSE old
            found == total_found + (ListLen(new) - ListLen(old))
            more == MorePages(r, found, page)
            last == missing_idx = Len(missing_types)
            cost == (IF r.items # <<>> /\ page = 1 THEN 1 ELSE 0)
                    + (IF more /\ page = 1 THEN 1 ELSE 0)
        IN
        /\ response' = [call |-> "search", target |-> rt, status |-> r.status,
                        total |-> r.total_count, body |-> r.items]
        /\ budget >= cost
        /\ budget' = budget - cost
        /\ out' = SearchReport(rt, r, found, more)
        /\ test_data_files' = IF new = <<>> THEN test_data_files
                              ELSE DictSet(test_data_files, rt, new)
        /\ searched' = searched \cup {rt}
        /\ page' = IF more THEN page + 1 ELSE 1
        /\ total_found' = IF more THEN found ELSE 0
        /\ missing_idx' = IF more THEN missing_idx ELSE missing_idx + 1
        /\ pc' = IF ~more /\ last THEN "compare" ELSE "search"
    /\ UNCHANGED <<profile_idx, count_idx, resource_counts, filtered_dirs, dir_idx,
                   top_failed, phase1_files, missing_types, rows, output_path, fs_dirs,
                   fs_files, written, writes>>

----------------------------------------------------------------------------
(* compare_server_to_github                                                *)

\* sorted(S) for a set of strings: the string at place i is the one with
\* i - 1 smaller strings in S.
SortedStrings(S) ==
    [i \in 1..Cardinality(S) |->
        CHOOSE x \in S : Cardinality({y \in S : StrLess(y, x)}) = i - 1]

\* A mutation of CompareOrder: the types are taken in the order of the tracked list.
CompareOrderUnsorted(server_counts, github_files) ==
    SelectSeqBy(RESOURCE_TYPES_TO_CHECK, DOMAIN server_counts \cup DOMAIN github_files)

\* sorted(set(server_counts.keys()) | set(github_files.keys()))
CompareOrder(server_counts, github_files) ==
    SortedStrings(DOMAIN server_counts \cup DOMAIN github_files)

\* `if server_count is None and github_count == 0: continue`
Skipped(server_count, github_count) == server_count = None /\ github_count = 0

\* The if/elif chain that chooses status.
Status(server_count, github_count) ==
    IF server_count = None THEN "not_available_on_server"
    ELSE IF server_count[1] = 0 /\ github_count > 0 THEN "missing_on_server"
    ELSE IF server_count[1] > 0 /\ github_count = 0 THEN "server_data_no_test_files"
    ELSE IF server_count[1] = github_count THEN "perfect_match"
    ELSE IF server_count[1] > github_count THEN "server_has_more"
    ELSE "server_has_fewer"

RECURSIVE CompareRows(_, _, _)
\* the loop `for resource_type in sorted(all_resource_types)`: the rows printed
CompareRows(order, server_counts, github_files) ==
    IF order = <<>> THEN <<>>
    ELSE LET resource_type == order[1]
             server_count == DictGet(server_counts, resource_type, Some(0))
             github_count == ListLen(DictGet(github_files, resource_type, <<>>))
             rest == CompareRows(Tail(order), server_counts, github_files)
         IN IF Skipped(server_count, github_count) THEN rest
            ELSE <<[type |-> resource_type, server |-> server_count,
                    corpus |-> github_count,
                    status |-> Status(server_count, github_count)]>> \o rest

\* compare_server_to_github(server_counts, github_files)
Compare ==
    /\ pc = "compare"
    /\ \E order \in {CompareOrder(resource_counts, test_data_files)} :
          rows' = CompareRows(order, resource_counts, test_data_files)
    /\ out' = [unit |-> <<>>, result |-> "comparison", detail |-> <<>>, active |-> None]
    /\ pc' = "write"
    /\ UNCHANGED <<response, profile_idx, count_idx, resource_counts, filtered_dirs,
                   dir_idx, top_failed, test_data_files, phase1_files, missing_types,
                   missing_idx, page, total_found, searched, output_path, fs_dirs,
                   fs_files, written, writes, budget>>

----------------------------------------------------------------------------
(* write_output_to_file                                                    *)

\* A path is [abs, parts]: whether it starts at the root, and its components.
\* The default of OUTPUT_FILE_PATH, "$HOME/data/check-sparked-server", expanded.
DefaultOutputPath ==
    [abs |-> TRUE, parts |-> <<"home", "user", "data", "check-sparked-server">>]

\* The values of OUTPUT_FILE_PATH the model draws from.
OutputPaths ==
    { DefaultOutputPath,
      [abs |-> TRUE, parts |-> <<"srv", "audit">>],
      [abs |-> FALSE, parts |-> <<"results">>],
      [abs |-> FALSE, parts |-> <<"out", "sparked">>] }

\* Path(p).parent
Parent(p) ==
    IF p.parts = <<>> THEN p
    ELSE [p EXCEPT !.parts = SubSeq(p.parts, 1, Len(p.parts) - 1)]

\* directory / name
Child(p, name) == [p EXCEPT !.parts = Append(p.parts, name)]

\* The path and every ancestor of it below the root (or the working directory).
Ancestry(p) == {[p EXCEPT !.parts = SubSeq(p.parts, 1, k)] : k \in 1..Len(p.parts)}

\* f"check_results_{timestamp}.txt", the timestamp being the clock's second
FileName(clock) == "check_results_" \o ToString(clock) \o ".txt"

\* The directory write_output_to_file creates and writes into.
TargetDirectory(file_path) == Parent(file_path)

\* write_output_to_file(output_content, OUTPUT_FILE_PATH).  fault: what the
\* operating system refuses ("mkdir", "open") beyond what the file system's
\* state already forbids.
WriteOutput ==
    /\ pc = "write"
    /\ \E clock \in 1..MaxClock, fault \in {"none", "mkdir", "open"} :
        LET directory == TargetDirectory(output_path)
            full_path == Child(directory, FileName(clock))
            mkdir_ok == fault # "mkdir" /\ Ancestry(directory) \cap fs_files = {}
            open_ok == mkdir_ok /\ fault # "open" /\ full_path \notin fs_dirs
        IN
        /\ fs_dirs' = IF mkdir_ok THEN fs_dirs \cup Ancestry(directory) ELSE fs_dirs
        /\ fs_files' = IF open_ok THEN fs_files \cup {full_path} ELSE fs_files
        /\ written' = IF open_ok THEN <<full_path>> ELSE None
        /\ out' = [unit |-> <<>>, result |-> IF open_ok THEN "saved" ELSE "write_error",
                   detail |-> <<>>, active |-> None]
    /\ writes' = writes + 1
    /\ pc' = "done"
    /\ UNCHANGED <<response, profile_idx, count_idx, resource_counts, filtered_dirs,
                   dir_idx, top_failed, test_data_files, phase1_files, missing_types,
                   missing_idx, page, total_found, searched, rows, output_path, budget>>

----------------------------------------------------------------------------
(* The run (`if __name__ == "__main__"`) and its parts on their own.       *)

NoResponse == [call |-> "none", target |-> <<>>, status |-> 0, total |-> 0, body |-> <<>>]

NoOutput == [unit |-> <<>>, result |-> "none", detail |-> <<>>, active |-> None]

\* The state in which the function at position start is entered, nothing of
\* the later functions having run.
Entry(start, data) ==
    /\ pc = start
    /\ response = NoResponse
    /\ out = NoOutput
    /\ profile_idx = 1
    /\ count_idx = 1
    /\ filtered_dirs = <<>>
    /\ dir_idx = 1
    /\ top_failed = FALSE
    /\ phase1_files = EmptyDict
    /\ missing_types = <<>>
    /\ missing_idx = 1
    /\ page = 1
    /\ total_found = 0
    /\ searched = {}
    /\ rows = <<>>
    /\ written = None
    /\ writes = 0
    /\ budget = data

\* The process starts: nothing was asked yet, the output directory is as configured.
Init ==
    /\ Entry("versions", MaxRunData)
    /\ resource_counts = EmptyDict
    /\ test_data_files = EmptyDict
    /\ output_path = DefaultOutputPath
    /\ fs_dirs = {}
    /\ fs_files = {}

Next ==
    \/ CheckProfile
    \/ CountResource
    \/ ListTop
    \/ ListDir
    \/ ComputeMissing
    \/ SearchPage
    \/ Compare
    \/ WriteOutput

\* The whole run.
Spec == Init /\ [][Next]_vars

\* The run is a sequential program: it takes its next step whenever it has one.
FairSpec == Spec /\ WF_vars(Next)

\* check_versions() on its own.
SpecVersions == Init /\ [][CheckProfile]_vars

InitCounts ==
    /\ Entry("counts", MaxCountData)
    /\ resource_counts = EmptyDict
    /\ test_data_files = EmptyDict
    /\ output_path = DefaultOutputPath
    /\ fs_dirs = {}
    /\ fs_files = {}

\* get_server_resource_summary() on its own.
SpecCounts == InitCounts /\ [][CountResource]_vars

InitCorpus ==
    /\ Entry("toplevel", MaxCorpusData)
    /\ resource_counts = EmptyDict
    /\ test_data_files = EmptyDict
    /\ output_path = DefaultOutputPath
    /\ fs_dirs = {}
    /\ fs_files = {}

NextCorpus ==
    \/ ListTop
    \/ ListDir
    \/ ComputeMissing
    \/ SearchPage

\* get_github_test_data_summary() on its own.
SpecCorpus == InitCorpus /\ [][NextCorpus]_vars

\* The arguments compare_server_to_github is called with: at most
\* MaxCompareData resource types have data of their own on either side, the
\* server answers alike (background) for all the others, which have no files.
CompareInputs ==
    UNION { [server : [picked -> {None} \cup {Some(n) : n \in 0..MaxTotal}],
             files : [picked -> 0..MaxTotal]] :
            picked \in {S \in SUBSET ResourceTypes : Cardinality(S) <= MaxCompareData} }

InitCompare ==
    /\ Entry("compare", 0)
    /\ \E input \in CompareInputs, background \in {None, Some(0)} :
        /\ resource_counts =
              [rt \in ResourceTypes |->
                  IF rt \in DOMAIN input.server THEN input.server[rt] ELSE background]
        /\ test_data_files =
              [rt \in {t \in DOMAIN input.files : input.files[t] > 0} |->
                  <<[path |-> DIR_au_core \o SLASH \o rt \o SUFFIX_001_json,
                     n |-> input.files[rt]]>>]
    /\ output_path = DefaultOutputPath
    /\ fs_dirs = {}
    /\ fs_files = {}

\* compare_server_to_github(server_counts, github_files) on its own.
SpecCompare == InitCompare /\ [][Compare]_vars

\* The file systems write_output_to_file may find: nothing there yet; the
\* directories there already; a transcript of the same second there already;
\* a file where a directory is to be.
InitWrite ==
    /\ Entry("write", 0)
    /\ resource_counts = EmptyDict
    /\ test_data_files = EmptyDict
    /\ output_path \in OutputPaths
    /\ fs_dirs \in { {}, Ancestry(Parent(output_path)), Ancestry(output_path) }
    /\ fs_files \in { {},
                      {Child(Parent(output_path), FileName(1))},
                      {Child(output_path, FileName(1))} }
                    \cup (IF fs_dirs = {} THEN {Ancestry(Parent(output_path))} ELSE {})

\* write_output_to_file(output_content, OUTPUT_FILE_PATH) on its own.
SpecWrite == InitWrite /\ [][WriteOutput]_vars

----------------------------------------------------------------------------
(* Properties.                                                             *)

\* The place of a tracked resource type in RESOURCE_TYPES_TO_CHECK.
TypeIndex(t) == CHOOSE i \in 1..Len(RESOURCE_TYPES_TO_CHECK) : RESOURCE_TYPES_TO_CHECK[i] = t

\* The resource types asked for so far by get_server_resource_summary.
TypesCounted == {RESOURCE_TYPES_TO_CHECK[i] : i \in 1..(count_idx - 1)}

\* C1: get_server_resource_summary returns a map with exactly one entry for
\* every type of RESOURCE_TYPES_TO_CHECK and no other key; the entry of a type
\* is the reported total when its query answered 200 and None in every other
\* case (404, another status, an exception), never 0; an entry once made is
\* not changed by the later queries.
C1_OneEntryPerType ==
    /\ [](DOMAIN resource_counts = TypesCounted)
    /\ [](pc # "counts" => DOMAIN resource_counts = ResourceTypes)
    /\ [](response.call = "count" =>
            LET entry == resource_counts[response.target] IN
            /\ response.status = 200 => entry = Some(response.total)
            /\ response.status # 200 => entry = None /\ entry # Some(0))
    /\ [][\A t \in DOMAIN resource_counts :
            t \in DOMAIN resource_counts' /\ resource_counts'[t] = resource_counts[t]]_vars

\* C1 witness: the summary is complete, with a positive total, a zero total
\* and types left at None, the last of them after a 404.
C1_Witness ==
    /\ pc = "toplevel"
    /\ resource_counts[Patient] = Some(MaxTotal)
    /\ resource_counts[Practitioner] = Some(0)
    /\ resource_counts[Task] = None
    /\ response.target = CommunicationRequest
    /\ response.status = 404
    /\ resource_counts[CommunicationRequest] = None

\* The entries of a bundle whose status is "active".
ActiveEntries(entry) == {i \in 1..Len(entry) : entry[i].status = "active"}

\* C6: for a profile whose search returned a result that is not empty,
\* check_versions reports VERIFIED exactly when "1.0.0" occurs as a substring
\* of the version of some active entry (not only when a version equals it),
\* and WARNING otherwise; with no active entry it shows NONE and warns; the
\* version shown as currently active is that of the first active entry.
C6_VerdictBySubstring ==
    (response.call = "profile" /\ response.status = 200 /\ response.total # 0) =>
        LET active == ActiveEntries(response.body) IN
        /\ out.unit = response.target
        /\ out.result \in {"VERIFIED", "WARNING"}
        /\ out.result = "VERIFIED" <=>
              \E i \in active : Contains(response.body[i].version, V_1_0_0)
        /\ active = {} => out.active = NONE /\ out.result = "WARNING"
        /\ active # {} =>
              out.active = response.body[CHOOSE i \in active : \A j \in active : i <= j].version
        /\ (\A i \in active : response.body[i].version = V_0_9_0) => out.result = "WARNING"

\* C6 witness: the second profile has two active entries, "0.9.0" first and
\* "11.0.0" second: 0.9.0 is shown as active and the verdict is VERIFIED,
\* by containment alone.
C6_Witness ==
    /\ pc = "counts"
    /\ response.call = "profile"
    /\ response.total # 0
    /\ response.body = <<[version |-> V_0_9_0, status |-> "active"],
                         [version |-> V_11_0_0, status |-> "active"]>>
    /\ out.active = V_0_9_0
    /\ out.result = "VERIFIED"

\* Whether t is the first listed type that is a prefix of filename.
IsFirstPrefix(t, filename) ==
    /\ StartsWith(filename, t)
    /\ \A u \in ResourceTypes : TypeIndex(u) < TypeIndex(t) => ~StartsWith(filename, u)

\* The JSON files of a listing that are to be filed under t.
FiledUnder(t, contents) ==
    {i \in 1..Len(contents) :
        /\ contents[i].type = "file"
        /\ EndsWith(contents[i].name, DOT_JSON)
        /\ IsFirstPrefix(t, contents[i].name)}

\* The paths of a run-length encoded list.
Paths(list) == {list[i].path : i \in 1..Len(list)}

\* C5: Phase 1 files every JSON file of a listed subdirectory under the first
\* type of RESOURCE_TYPES_TO_CHECK that is a prefix of its name and under no
\* other, as "<dir>/<name>"; a file no type is a prefix of is filed nowhere;
\* so through Phase 1 nothing is filed under "PractitionerRole", a
\* PractitionerRole-001.json going to "Practitioner".
C5_FirstMatchWins ==
    /\ [](pc \in {"toplevel", "dirs", "phase2"} => PractitionerRole \notin DOMAIN test_data_files)
    /\ [][pc = "dirs" =>
            \A t \in ResourceTypes :
                LET before == DictGet(test_data_files, t, <<>>)
                    after == DictGet(test_data_files', t, <<>>)
                    filed == IF response'.status = 200
                             THEN FiledUnder(t, response'.body) ELSE {}
                IN /\ ListLen(after) = ListLen(before) + Cardinality(filed)
                   /\ Paths(after) =
                        Paths(before) \cup
                        {response'.target \o SLASH \o response'.body[i].name : i \in filed}]_vars

\* C5 witness: a listing of au-core held PractitionerRole-001.json and
\* notes.json; Phase 1 ended with the first under "Practitioner" and nothing else.
C5_Witness ==
    /\ pc = "phase2"
    /\ response.call = "dir"
    /\ response.body = <<[name |-> F_PractitionerRole_json, type |-> "file"],
                         [name |-> F_notes_json, type |-> "file"]>>
    /\ DOMAIN test_data_files = {Practitioner}
    /\ Paths(test_data_files[Practitioner]) = {DIR_au_core \o SLASH \o F_PractitionerRole_json}

\* The tracked types with no entry in the index when Phase 1 ended.
EmptyAfterPhase1 ==
    {t \in ResourceTypes : ListLen(DictGet(phase1_files, t, <<>>)) = 0}

\* C4: a tracked type is searched in Phase 2 exactly when it has no entry in
\* the index at the end of Phase 1; for a type with a Phase 1 entry no search
\* request is sent and its entries stay as Phase 1 left them.
C4_FallbackIffNoPhase1Match ==
    pc \in {"search", "compare"} =>
        /\ searched \subseteq EmptyAfterPhase1
        /\ pc = "compare" => searched = EmptyAfterPhase1
        /\ \A t \in ResourceTypes \ EmptyAfterPhase1 :
              t \notin searched /\ test_data_files[t] = phase1_files[t]

\* C4 witness: Phase 1 found a Patient file; Phase 2 is over, Patient was
\* never searched, PractitionerRole was and got an entry.
C4_Witness ==
    /\ pc = "compare"
    /\ Patient \in DOMAIN phase1_files
    /\ Patient \notin searched
    /\ PractitionerRole \in searched
    /\ PractitionerRole \in DOMAIN test_data_files

RECURSIVE AcceptedCount(_, _)
\* The items of a page whose path contains "/<rt>-".
AcceptedCount(rt, items) ==
    IF items = <<>> THEN 0
    ELSE (IF Contains(items[1].path, SLASH \o rt \o DASH) THEN items[1].n ELSE 0)
         + AcceptedCount(rt, Tail(items))

\* C9: for each missing type the pages are asked for in order 1, 2, ... and
\* never beyond page 10; page n+1 is asked for only if page n answered 200
\* with exactly 100 items and the matches so far are fewer than the reported
\* total_count; any other answer, or an exception, ends the pagination of
\* that type only, the next missing type being searched from page 1; only
\* items whose path contains "/<ResourceType>-" are taken.
C9_PaginationBounded ==
    /\ [](pc = "search" => page \in 1..MAX_PAGES /\ missing_idx \in 1..Len(missing_types))
    /\ [][pc = "search" =>
            LET rt == missing_types[missing_idx]
                before == ListLen(DictGet(test_data_files, rt, <<>>))
                after == ListLen(DictGet(test_data_files', rt, <<>>))
                taken == IF response'.status = 200
                         THEN AcceptedCount(rt, response'.body) ELSE 0
            IN
            /\ response'.call = "search" /\ response'.target = rt
            /\ after = before + taken
            /\ \A t \in ResourceTypes \ {rt} :
                  DictGet(test_data_files', t, <<>>) = DictGet(test_data_files, t, <<>>)
            /\ IF pc' = "search" /\ missing_idx' = missing_idx
               THEN /\ page' = page + 1
                    /\ response'.status = 200
                    /\ ListLen(response'.body) = PER_PAGE
                    /\ total_found' = total_found + taken
                    /\ total_found' < response'.total
               ELSE /\ missing_idx' = missing_idx + 1
                    /\ page' = 1
                    /\ total_found' = 0
                    /\ pc' = IF missing_idx < Len(missing_types) THEN "search" ELSE "compare"]_vars

\* C9 witness: ten full pages of Patient files were taken (the tenth was the
\* last asked for), and the search has moved on to the next missing type.
C9_Witness ==
    /\ pc = "search"
    /\ ListLen(DictGet(test_data_files, Patient, <<>>)) = MAX_PAGES * PER_PAGE
    /\ response.target = Patient
    /\ response.total > MAX_PAGES * PER_PAGE
    /\ missing_types[missing_idx] = Practitioner
    /\ page = 1

\* The path of an index entry from the root of the repository: Phase 1 keeps
\* "<dir>/<name>", relative to TEST_DATA_PATH; Phase 2 keeps the search's path.
RepoPath(p) ==
    IF StartsWith(p, TEST_DATA_PATH \o SLASH) THEN p ELSE TEST_DATA_PATH \o SLASH \o p

\* C10: no corpus file is counted under two resource types of the index.
C10_NoFileCountedTwice ==
    \A t \in DOMAIN test_data_files, u \in DOMAIN test_data_files :
        t # u =>
            {RepoPath(p) : p \in Paths(test_data_files[t])}
            \cap {RepoPath(p) : p \in Paths(test_data_files[u])} = {}

\* The row printed for a resource type, if any.
RowsOf(t) == {i \in 1..Len(rows) : rows[i].type = t}

\* C2: a type with no server count (None or 0) and no corpus file has no row.
C2_EmptyRowsSuppressed ==
    pc \in {"write", "done"} =>
        \A t \in ResourceTypes :
            (/\ DictGet(resource_counts, t, Some(0)) \in {None, Some(0)}
             /\ ListLen(DictGet(test_data_files, t, <<>>)) = 0)
            => RowsOf(t) = {}

\* The verdict of a row with server count s (None or <<n>>) and c corpus files.
Verdict(s, c) ==
    CASE s = None -> "not_available_on_server"
      [] s # None /\ s[1] = 0 /\ c > 0 -> "missing_on_server"
      [] s # None /\ s[1] > 0 /\ c = 0 -> "server_data_no_test_files"
      [] s # None /\ s[1] = c -> "perfect_match"
      [] s # None /\ c > 0 /\ s[1] > c -> "server_has_more"
      [] s # None /\ s[1] > 0 /\ s[1] < c -> "server_has_fewer"

\* C3: every printed row is of a type of one of the two maps, shows that
\* type's server count s and corpus count c, and carries the one verdict its
\* case asks for (s None; s = 0 < c; s > 0 = c; s = c; s > c; s < c); the rows
\* come in strictly increasing lexicographic order of resource type.
C3_VerdictAndOrder ==
    pc \in {"write", "done"} =>
        /\ \A i \in 1..Len(rows) :
              LET t == rows[i].type
                  s == DictGet(resource_counts, t, Some(0))
                  c == ListLen(DictGet(test_data_files, t, <<>>))
              IN /\ t \in DOMAIN resource_counts \cup DOMAIN test_data_files
                 /\ rows[i].server = s
                 /\ rows[i].corpus = c
                 /\ rows[i].status = Verdict(s, c)
        /\ \A i \in 1..(Len(rows) - 1) : StrLess(rows[i].type, rows[i + 1].type)

\* C3 witness: twelve rows were printed, from CommunicationRequest to Task,
\* one of them with a server count above the corpus count.
C3_Witness ==
    /\ pc = "write"
    /\ Len(rows) = Len(RESOURCE_TYPES_TO_CHECK)
    /\ \E i \in 1..Len(rows) : rows[i].status = "server_has_more"
    /\ rows[1].type = CommunicationRequest
    /\ rows[Len(rows)].type = Task

\* C7: the transcript is written into the configured output directory, which
\* exists afterwards.
C7_WrittenInsideOutputDirectory ==
    (pc = "done" /\ written # None) =>
        /\ output_path \in fs_dirs \/ output_path.parts = <<>>
        /\ \E clock \in 1..MaxClock : written[1] = Child(output_path, FileName(clock))

\* The steps between the parts of the run, in program order.
PhaseSteps ==
    { <<"versions", "counts">>, <<"counts", "toplevel">>, <<"toplevel", "dirs">>,
      <<"toplevel", "phase2">>, <<"dirs", "phase2">>, <<"phase2", "search">>,
      <<"phase2", "compare">>, <<"search", "compare">>, <<"compare", "write">>,
      <<"write", "done">> }

\* C8: whatever the external calls answer, the run goes through profile
\* checks, server counts, corpus Phase 1, corpus Phase 2, the comparison and
\* one transcript write, in this order, and gets to the end: every profile,
\* resource type, filtered subdirectory and missing type is processed
\* whatever happened to the ones before; a top-level listing that failed
\* leaves no subdirectory to list, and Phase 2 and the comparison still run.
C8_RunReachesTheEnd ==
    /\ [][/\ pc' # pc => <<pc, pc'>> \in PhaseSteps
          /\ pc = "versions" =>
                /\ profile_idx' = profile_idx + 1
                /\ (pc' = "counts") = (profile_idx = Len(PROFILES_TO_CHECK))
          /\ pc = "counts" =>
                /\ count_idx' = count_idx + 1
                /\ (pc' = "toplevel") = (count_idx = Len(RESOURCE_TYPES_TO_CHECK))
          /\ pc = "toplevel" =>
                /\ (pc' = "dirs") = (filtered_dirs' # <<>>)
                /\ response'.status # 200 => top_failed' /\ filtered_dirs' = <<>>
          /\ pc = "dirs" =>
                /\ dir_idx' = dir_idx + 1
                /\ (pc' = "phase2") = (dir_idx = Len(filtered_dirs))
          /\ pc = "phase2" =>
                /\ (pc' = "search") = (\E t \in ResourceTypes : t \notin DOMAIN test_data_files)
          /\ pc = "search" =>
                /\ missing_idx' \in {missing_idx, missing_idx + 1}
                /\ (pc' = "compare") = (missing_idx' = Len(missing_types) + 1)
          /\ pc' = "write" => rows' = CompareRows(CompareOrder(resource_counts, test_data_files),
                                                  resource_counts, test_data_files)
          /\ pc' = "done" => writes' = 1]_vars
    /\ [](pc = "done" =>
            /\ profile_idx = Len(PROFILES_TO_CHECK) + 1
            /\ DOMAIN resource_counts = ResourceTypes
            /\ dir_idx = Len(filtered_dirs) + 1
            /\ searched = ResourceTypes \ DOMAIN phase1_files
            /\ writes = 1)
    /\ <>(pc = "done")

\* C8 witness: the run ended with its transcript written although no count
\* query answered 200, the top-level listing failed, every tracked type was
\* searched for and the last search request raised.
C8_Witness ==
    /\ pc = "done"
    /\ written # None
    /\ top_failed
    /\ \A t \in ResourceTypes : resource_counts[t] = None
    /\ searched = ResourceTypes
    /\ response.call = "search"
    /\ response.status = 0

============================================================================
